---------------------------- MODULE Spec2Model ----------------------------
(***************************************************************************)
(* A model of the photometry pipeline of src/further_processing.py and of  *)
(* the catalog class of src/ObservationData.py.                            *)
(*                                                                         *)
(* Four specifications share the variables below:                          *)
(*   Spec           the two aggregation paths, combine_band_images and     *)
(*                  temp_combine_raw_band_images, and load_data, over a    *)
(*                  directory of FITS files;                               *)
(*   SpecCatalog    the methods of ObservationData that read or write its  *)
(*                  table, and combine_band_images;                        *)
(*   SpecPhotometry the stages main() runs on the combined image:          *)
(*                  subtract_sky_background, estimate_galaxy_center,       *)
(*                  estimate_radius, fit_ellipses;                         *)
(*   SpecRadius     estimate_radius called on its own, with any image,     *)
(*                  center and threshold fraction.                         *)
(*                                                                         *)
(* Representation.  A Python str is a sequence of one-character strings,   *)
(* so that upper(), lower(), strip() and endswith() are computed           *)
(* character by character.  A 2-D array is a record [shape, pix] with pix  *)
(* the row-major (ravel) sequence of its elements.  A real number that     *)
(* need not be an integer is a record [n, d] standing for n/d.             *)
(***************************************************************************)
EXTENDS Integers, Sequences, FiniteSets

VARIABLES
    disk,             \* the directory: its FITS files, in os.listdir order
    directory_frame,  \* ObservationData.directory_frame
    call,             \* the last call made: its name and arguments
    ret,              \* what that call returned
    raised,           \* the exception that call raised ("" when none)
    pc,               \* main(): the stage reached
    image,            \* main(): image, the combined image
    clean_ret,        \* main(): what subtract_sky_background returned
    center,           \* main(): center
    radius,           \* main(): radius
    profile,          \* main(): what fit_ellipses did
    rcall,            \* estimate_radius on its own: the last two calls
    rprev

aggVars == <<disk, directory_frame, call, ret, raised>>
mainVars == <<pc, image, clean_ret, center, radius, profile>>
radVars == <<rcall, rprev>>
vars == <<disk, directory_frame, call, ret, raised,
          pc, image, clean_ret, center, radius, profile, rcall, rprev>>

-----------------------------------------------------------------------------
(* Python str *)

LowerLetters == <<"a","b","c","d","e","f","g","h","i","j","k","l","m",
                  "n","o","p","q","r","s","t","u","v","w","x","y","z">>
UpperLetters == <<"A","B","C","D","E","F","G","H","I","J","K","L","M",
                  "N","O","P","Q","R","S","T","U","V","W","X","Y","Z">>

UpperChar(c) ==
    IF \E i \in DOMAIN LowerLetters : LowerLetters[i] = c
    THEN UpperLetters[CHOOSE i \in DOMAIN LowerLetters : LowerLetters[i] = c]
    ELSE c

LowerChar(c) ==
    IF \E i \in DOMAIN UpperLetters : UpperLetters[i] = c
    THEN LowerLetters[CHOOSE i \in DOMAIN UpperLetters : UpperLetters[i] = c]
    ELSE c

\* str.upper()
upper(s) == [i \in 1..Len(s) |-> UpperChar(s[i])]

\* str.lower()
lower(s) == [i \in 1..Len(s) |-> LowerChar(s[i])]

RECURSIVE lstrip(_)
lstrip(s) == IF s # <<>> /\ Head(s) = " " THEN lstrip(Tail(s)) ELSE s

RECURSIVE rstrip(_)
rstrip(s) ==
    IF s # <<>> /\ s[Len(s)] = " " THEN rstrip(SubSeq(s, 1, Len(s) - 1)) ELSE s

\* str.strip()
strip(s) == rstrip(lstrip(s))

\* str.endswith(suffix)
endswith(s, suffix) ==
    /\ Len(suffix) <= Len(s)
    /\ SubSeq(s, Len(s) - Len(suffix) + 1, Len(s)) = suffix

\* None, where a str may stand (header.get(key, None)): a value no str equals.
None == <<"None">>


-----------------------------------------------------------------------------
(* The directory of FITS files *)

\* The most files the directory holds.
MaxFiles == 3

\* The strings the header cards and the requested band are drawn from.
LIGHT == <<"L","I","G","H","T">>
BIAS == <<"B","I","A","S">>
ExtFits == <<".","f","i","t","s">>

\* A 2-D pixel array: its shape (rows, columns) and its elements, row-major.
Array(h, w, pix) == [shape |-> <<h, w>>, pix |-> pix]

\* Raw counts of a frame's pixels.
FrameValues == {1, 4}

\* Frames of one shape, and one frame of another shape.
FrameData ==
    {Array(1, 2, p) : p \in [1..2 -> FrameValues]} \cup {Array(1, 1, <<4>>)}

\* A primary header as astropy reads it: card name -> value.
Header(filter, imagetyp) == [k \in {"FILTER", "IMAGETYP"} |->
                                IF k = "FILTER" THEN filter ELSE imagetyp]
NoCards == [k \in {} |-> <<>>]

\* A file of the directory, but for its name: extension, header, data.
Kind(ext, header, data) == [ext |-> ext, header |-> header, data |-> data]

\* Files that differ in their data: LIGHT frames of band R, and one of band V.
DataKinds ==
    {Kind(ExtFits, Header(<<"R">>, LIGHT), d) : d \in FrameData}
    \cup {Kind(ExtFits, Header(<<"V">>, LIGHT), Array(1, 2, <<4, 4>>))}

\* Files that differ in their header cards and in their names' extension.
HeaderKinds ==
    {Kind(ExtFits, h, Array(1, 2, <<1, 4>>)) :
        h \in {Header(<<"R">>, LIGHT),
               Header(<<"r">>, <<"l","i","g","h","t">>),
               Header(<<" ","R">>, <<"L","i","g","h","t">>),
               Header(<<"V">>, LIGHT),
               Header(<<"R">>, BIAS),
               NoCards}}
    \cup {Kind(e, Header(<<"R">>, LIGHT), Array(1, 2, <<4, 1>>)) :
            e \in {<<".","F","I","T","S">>, <<".","f","i","t">>}}

\* The i-th file listed: it is named by the i-th letter, followed by its
\* extension.
File(i, kind) ==
    [name |-> <<LowerLetters[i]>> \o kind.ext,
     header |-> kind.header,
     data |-> kind.data]

\* The directory listing made of `kinds`.
Directory(kinds) == [i \in 1..Len(kinds) |-> File(i, kinds[i])]

SeqsUpTo(S, n) == UNION {[1..k -> S] : k \in 0..n}

\* The bands a caller asks for.
Bands == {<<"R">>, <<"V">>}

\* header.get(key, default)
HeaderGet(header, key, default) ==
    IF key \in DOMAIN header THEN header[key] ELSE default

\* fits.getdata(os.path.join(directory_path, fname))
GetData(d, fname) == (CHOOSE f \in {d[i] : i \in DOMAIN d} : f.name = fname).data

-----------------------------------------------------------------------------
(* pandas.DataFrame, as far as ObservationData uses it *)

Columns == {"FILENAME", "OBJECT", "FILTER", "IMAGETYP", "DATE-OBS", "EXP-TIME", "JD"}

\* The row refresh_dir and add_file build for a file.  OBJECT, DATE-OBS,
\* EXP-TIME and JD are carried like FILTER and IMAGETYP and read by no query
\* of the pipeline; the row keeps the three columns the pipeline reads.
Row(f) ==
    [FILENAME |-> f.name,
     FILTER |-> HeaderGet(f.header, "FILTER", None),
     IMAGETYP |-> HeaderGet(f.header, "IMAGETYP", None)]

\* pd.DataFrame(rows): a frame made of no row has no column.
DataFrame(rows) ==
    [columns |-> IF rows = <<>> THEN {} ELSE Columns, rows |-> rows]

\* pd.concat([a, b], ignore_index=True)
Concat(a, b) ==
    [columns |-> a.columns \cup b.columns, rows |-> a.rows \o b.rows]

\* The expression  FILTER == "<filter>" and IMAGETYP == "<imagetyp>".
Expression(filter, imagetyp) == [FILTER |-> filter, IMAGETYP |-> imagetyp]

RECURSIVE SelectRows(_, _)
SelectRows(rows, expression) ==
    IF rows = <<>> THEN <<>>
    ELSE LET r == Head(rows)
             rest == SelectRows(Tail(rows), expression)
         IN  IF r.FILTER = expression.FILTER /\ r.IMAGETYP = expression.IMAGETYP
             THEN <<r>> \o rest
             ELSE rest

\* DataFrame.query(expression): the rows the expression holds of, in order;
\* a column name the frame does not have is an undefined variable.
Query(frame, expression) ==
    IF ~({"FILTER", "IMAGETYP"} \subseteq frame.columns)
    THEN [raised |-> "UndefinedVariableError", frame |-> frame]
    ELSE [raised |-> "",
          frame |-> [columns |-> frame.columns,
                     rows |-> SelectRows(frame.rows, expression)]]

-----------------------------------------------------------------------------
(* numpy: dstack and median *)

NoImage == Array(0, 0, <<>>)
NoFrame == [columns |-> {}, rows |-> <<>>]

\* np.dstack(frames): 2-D arrays stacked along a new third axis; the arrays
\* must agree in shape, and there must be one at least.
DStack(frames) ==
    IF frames = <<>> \/ \E i, j \in DOMAIN frames : frames[i].shape # frames[j].shape
    THEN [raised |-> "ValueError", frames |-> <<>>]
    ELSE [raised |-> "", frames |-> frames]

RECURSIVE Insert(_, _)
Insert(s, x) ==
    IF s = <<>> THEN <<x>>
    ELSE IF x <= Head(s) THEN <<x>> \o s
    ELSE <<Head(s)>> \o Insert(Tail(s), x)

RECURSIVE Sort(_)
Sort(s) == IF s = <<>> THEN <<>> ELSE Insert(Sort(Tail(s)), Head(s))

\* The middle element of the values as they come, unsorted.
MedianUnsorted(vals) == [n |-> vals[(Len(vals) + 2) \div 2], d |-> 1]

\* np.median of a non-empty vector: the middle of the sorted values, the
\* mean of the two middle ones when their number is even.
Median(vals) ==
    LET s == Sort(vals)
        k == Len(s) \div 2
    IN  IF Len(s) % 2 = 1
        THEN [n |-> s[k + 1], d |-> 1]
        ELSE [n |-> s[k] + s[k + 1], d |-> 2]

\* np.median(stacked, axis=2): the median, pixel by pixel, across the frames.
MedianAxis2(frames) ==
    LET shape == frames[1].shape
    IN  Array(shape[1], shape[2],
              [p \in 1..(shape[1] * shape[2]) |->
                  Median([k \in 1..Len(frames) |-> frames[k].pix[p]])])

-----------------------------------------------------------------------------
(* further_processing: the two aggregation paths *)

\* combine_band_images(obs_data, band), obs_data holding `frame` over the
\* directory `d`.
combine_band_images(frame, d, band) ==
    LET band_files == Query(frame, Expression(band, LIGHT))
        stacked == DStack([i \in 1..Len(band_files.frame.rows) |->
                              GetData(d, band_files.frame.rows[i].FILENAME)])
    IN  IF band_files.raised # "" THEN [raised |-> band_files.raised, image |-> NoImage]
        ELSE IF band_files.frame.rows = <<>> THEN [raised |-> "ValueError", image |-> NoImage]
        ELSE IF stacked.raised # "" THEN [raised |-> stacked.raised, image |-> NoImage]
        ELSE [raised |-> "", image |-> MedianAxis2(stacked.frames)]

\* The loop of temp_combine_raw_band_images: the data of the files it keeps.
RECURSIVE RawSelection(_, _)
RawSelection(d, band) ==
    IF d = <<>> THEN <<>>
    ELSE LET f == Head(d)
             rest == RawSelection(Tail(d), band)
         IN  IF ~endswith(lower(f.name), ExtFits) THEN rest
             ELSE IF /\ upper(strip(HeaderGet(f.header, "IMAGETYP", <<>>))) = LIGHT
                     /\ upper(strip(HeaderGet(f.header, "FILTER", <<>>))) = upper(band)
                  THEN <<f>> \o rest
                  ELSE rest

\* temp_combine_raw_band_images(raw_dir, band), raw_dir listing as `d`.
temp_combine_raw_band_images(d, band) ==
    LET kept == RawSelection(d, band)
        stacked == DStack([i \in 1..Len(kept) |-> kept[i].data])
    IN  IF kept = <<>> THEN [raised |-> "ValueError", image |-> NoImage]
        ELSE IF stacked.raised # "" THEN [raised |-> stacked.raised, image |-> NoImage]
        ELSE [raised |-> "", image |-> MedianAxis2(stacked.frames)]

-----------------------------------------------------------------------------
(* ObservationData *)

\* The most files of the directory in the specification of the catalog.
MaxCatalogFiles == 2

\* refresh_dir(): the frame of the rows of the files listed.
refresh_dir(d) == DataFrame([i \in 1..Len(d) |-> Row(d[i])])

\* add_file(f): the frame with the file's row appended.
add_file(frame, f) == Concat(frame, DataFrame(<<Row(f)>>))

\* filter(expression, replace): what it raises, what it returns (None, or
\* the frame queried) and directory_frame after the call.
filter(frame, expression, replace) ==
    LET q == Query(frame, expression)
    IN  IF q.raised # ""
        THEN [raised |-> q.raised, kind |-> "", ret |-> NoFrame, frame |-> frame]
        ELSE IF replace
        THEN [raised |-> "", kind |-> "None", ret |-> NoFrame, frame |-> q.frame]
        ELSE [raised |-> "", kind |-> "frame", ret |-> q.frame, frame |-> frame]

\* load_data(expression): the stack of the data of the files selected, and
\* directory_frame after the call.
load_data(frame, d, expression) ==
    LET files == filter(frame, expression, FALSE)
        data == DStack([i \in 1..Len(files.ret.rows) |->
                           GetData(d, files.ret.rows[i].FILENAME)])
    IN  IF files.raised # ""
        THEN [raised |-> files.raised, stack |-> <<>>, frame |-> files.frame]
        ELSE [raised |-> data.raised, stack |-> data.frames, frame |-> files.frame]

-----------------------------------------------------------------------------
(* The calls, as actions *)

Call(op, band, expression, replace) ==
    [op |-> op, band |-> band, expression |-> expression, replace |-> replace]
NoExpression == Expression(<<>>, <<>>)
NoCall == Call("", <<>>, NoExpression, FALSE)

Ret(kind, frame, img, stack) ==
    [kind |-> kind, frame |-> frame, image |-> img, stack |-> stack]
NoRet == Ret("", NoFrame, NoImage, <<>>)

\* The expressions the callers of filter and load_data pass.
Expressions == {Expression(b, t) : b \in Bands, t \in {LIGHT, BIAS}}

CombineBandImages(band) ==
    LET r == combine_band_images(directory_frame, disk, band)
    IN  /\ call' = Call("combine_band_images", band, NoExpression, FALSE)
        /\ raised' = r.raised
        /\ ret' = IF r.raised = "" THEN Ret("image", NoFrame, r.image, <<>>) ELSE NoRet
        /\ UNCHANGED <<disk, directory_frame>>

TempCombineRawBandImages(band) ==
    LET r == temp_combine_raw_band_images(disk, band)
    IN  /\ call' = Call("temp_combine_raw_band_images", band, NoExpression, FALSE)
        /\ raised' = r.raised
        /\ ret' = IF r.raised = "" THEN Ret("image", NoFrame, r.image, <<>>) ELSE NoRet
        /\ UNCHANGED <<disk, directory_frame>>

Filter(expression, replace) ==
    LET r == filter(directory_frame, expression, replace)
    IN  /\ call' = Call("filter", <<>>, expression, replace)
        /\ raised' = r.raised
        /\ ret' = Ret(r.kind, r.ret, NoImage, <<>>)
        /\ directory_frame' = r.frame
        /\ UNCHANGED disk

LoadData(expression) ==
    LET r == load_data(directory_frame, disk, expression)
    IN  /\ call' = Call("load_data", <<>>, expression, FALSE)
        /\ raised' = r.raised
        /\ ret' = IF r.raised = "" THEN Ret("stack", NoFrame, NoImage, r.stack) ELSE NoRet
        /\ directory_frame' = r.frame
        /\ UNCHANGED disk

\* A file appears in the directory and add_file is called with its name.
AddFile(kind) ==
    /\ Len(disk) < MaxCatalogFiles
    /\ disk' = Append(disk, File(Len(disk) + 1, kind))
    /\ directory_frame' = add_file(directory_frame, disk'[Len(disk')])
    /\ call' = Call("add_file", <<>>, NoExpression, FALSE)
    /\ raised' = ""
    /\ ret' = Ret("None", NoFrame, NoImage, <<>>)

RefreshDir ==
    /\ directory_frame' = refresh_dir(disk)
    /\ call' = Call("refresh_dir", <<>>, NoExpression, FALSE)
    /\ raised' = ""
    /\ ret' = Ret("None", NoFrame, NoImage, <<>>)
    /\ UNCHANGED disk

-----------------------------------------------------------------------------
(* Real numbers, as numpy's float64 holds them *)

Finite(n, d) == [kind |-> "finite", n |-> n, d |-> d]
NaN == [kind |-> "nan", n |-> 0, d |-> 1]
PosInf == [kind |-> "inf", n |-> 1, d |-> 1]
NegInf == [kind |-> "-inf", n |-> -1, d |-> 1]

\* n / d in float64 arithmetic: a division by zero gives nan or an infinity.
Divide(n, d) ==
    IF d # 0 THEN Finite(n, d)
    ELSE IF n = 0 THEN NaN
    ELSE IF n > 0 THEN PosInf
    ELSE NegInf

\* a == b and a >= b on non-negative values whose denominators are positive.
\* Any comparison with nan is false.
RealEq(a, b) ==
    /\ a.kind # "nan" /\ b.kind # "nan"
    /\ IF a.kind = "finite" /\ b.kind = "finite"
       THEN a.n * b.d = b.n * a.d
       ELSE a.kind = b.kind
RealGe(a, b) ==
    /\ a.kind # "nan" /\ b.kind # "nan"
    /\ IF a.kind = "finite" /\ b.kind = "finite"
       THEN a.n * b.d >= b.n * a.d
       ELSE a.kind = "inf"

-----------------------------------------------------------------------------
(* Images *)

\* The shape of the images.
Height == 2
Width == 2

\* The values of the pixels.
PixelValues == {-2, 0, 1, 3}

Pixels == 1..(Height * Width)

\* A sky of one value with two sources on it (which may coincide, and may be
\* as faint as the sky).
Images ==
    {Array(Height, Width,
           [p \in Pixels |-> IF p = p1 THEN v1 ELSE IF p = p2 THEN v2 ELSE sky]) :
        sky \in PixelValues, p1 \in Pixels, v1 \in PixelValues,
        p2 \in Pixels, v2 \in PixelValues}

\* The row and the column (numpy indices, from 0) of the p-th element.
RowIndex(img, p) == (p - 1) \div img.shape[2]
ColIndex(img, p) == (p - 1) % img.shape[2]

RECURSIVE SeqSum(_)
SeqSum(s) == IF s = <<>> THEN 0 ELSE Head(s) + SeqSum(Tail(s))

\* image.max()
ArrayMax(img) ==
    CHOOSE m \in {img.pix[p] : p \in DOMAIN img.pix} :
        \A p \in DOMAIN img.pix : img.pix[p] <= m

-----------------------------------------------------------------------------
(* further_processing: the stages after aggregation *)

\* The values of a vector, each once, ascending (np.unique).
RECURSIVE Unique(_)
Unique(sorted) ==
    IF Len(sorted) <= 1 THEN sorted
    ELSE IF sorted[1] = sorted[2] THEN Unique(Tail(sorted))
    ELSE <<sorted[1]>> \o Unique(Tail(sorted))

Count(vals, v) == Cardinality({i \in DOMAIN vals : vals[i] = v})

\* The first (last, when `last`) of the values `u` that `vals` holds most often.
RECURSIVE MostFrequent(_, _, _)
MostFrequent(u, vals, last) ==
    IF Len(u) = 1 THEN u[1]
    ELSE LET rest == MostFrequent(Tail(u), vals, last)
         IN  IF \/ Count(vals, u[1]) > Count(vals, rest)
                \/ (~last /\ Count(vals, u[1]) = Count(vals, rest))
             THEN u[1]
             ELSE rest

\* The largest of the most frequent values.
ModeLargest(vals) == MostFrequent(Unique(Sort(vals)), vals, TRUE)

\* scipy.stats.mode(vals, axis=None, keepdims=False).mode: the counts of the
\* unique values, ascending, and the first value of the largest count.
Mode(vals) == MostFrequent(Unique(Sort(vals)), vals, FALSE)

\* subtract_sky_background(image): the values its return statement returns,
\* one array.
subtract_sky_background(img) ==
    LET sky_mode == Mode(img.pix)
    IN  <<Array(img.shape[1], img.shape[2],
                [p \in DOMAIN img.pix |-> img.pix[p] - sky_mode])>>

\* scipy.ndimage.center_of_mass(image): for each axis, the sum of
\* intensity * index over the sum of the intensities.
center_of_mass(img) ==
    LET normalizer == SeqSum(img.pix)
        rows == SeqSum([p \in DOMAIN img.pix |-> img.pix[p] * RowIndex(img, p)])
        cols == SeqSum([p \in DOMAIN img.pix |-> img.pix[p] * ColIndex(img, p)])
    IN  <<Divide(rows, normalizer), Divide(cols, normalizer)>>

\* estimate_galaxy_center(image)
estimate_galaxy_center(img) == center_of_mass(img)

\* The default of threshold_frac, 0.2.
DefaultThresholdFrac == [n |-> 1, d |-> 5]

\* The pixels below the threshold.
SelectedBelow(img, threshold_frac) ==
    LET max == ArrayMax(img)
    IN  {p \in DOMAIN img.pix :
            img.pix[p] * threshold_frac.d < max * threshold_frac.n}

\* The pixels at or above the threshold.
SelectedAtLeast(img, threshold_frac) ==
    LET max == ArrayMax(img)
    IN  {p \in DOMAIN img.pix :
            img.pix[p] * threshold_frac.d >= max * threshold_frac.n}

\* np.where(image > threshold), threshold = image.max() * threshold_frac and
\* threshold_frac = n/d with d > 0.
Selected(img, threshold_frac) ==
    LET max == ArrayMax(img)
    IN  {p \in DOMAIN img.pix :
            img.pix[p] * threshold_frac.d > max * threshold_frac.n}

Square(x) == x * x

\* (x - center[1])**2 + (y - center[0])**2 for the p-th pixel and a finite
\* center, over the denominator (center[0].d * center[1].d)^2.
SquaredDistance(img, c, p) ==
    Square((ColIndex(img, p) * c[2].d - c[2].n) * c[1].d)
        + Square((RowIndex(img, p) * c[1].d - c[1].n) * c[2].d)

SetMax(S) == CHOOSE m \in S : \A x \in S : x <= m

\* estimate_radius(image, center, threshold_frac).  The value is the radius
\* squared: np.sqrt is increasing and maps 0 to 0, so that the order of two
\* radii, and whether a radius is 0, are those of their squares.  A distance
\* from a nan coordinate is nan, from an infinite one infinite.
estimate_radius(img, c, threshold_frac) ==
    LET sel == Selected(img, threshold_frac)
    IN  IF sel = {} THEN Finite(0, 1)
        ELSE IF c[1].kind = "nan" \/ c[2].kind = "nan" THEN NaN
        ELSE IF c[1].kind # "finite" \/ c[2].kind # "finite" THEN PosInf
        ELSE Finite(SetMax({SquaredDistance(img, c, p) : p \in sel}),
                    Square(c[1].d * c[2].d))

-----------------------------------------------------------------------------
(* main(), from the combined image on *)

NoReal == [kind |-> "", n |-> 0, d |-> 1]
NoCenter == <<NoReal, NoReal>>

SubtractSkyBackground ==
    /\ pc = "combined"
    /\ clean_ret' = subtract_sky_background(image)
    /\ pc' = "cleaned"
    /\ UNCHANGED <<image, center, radius, profile>>

EstimateGalaxyCenter ==
    /\ pc = "cleaned"
    /\ center' = estimate_galaxy_center(clean_ret[1])
    /\ pc' = "centered"
    /\ UNCHANGED <<image, clean_ret, radius, profile>>

EstimateRadius ==
    /\ pc = "centered"
    /\ radius' = estimate_radius(clean_ret[1], center, DefaultThresholdFrac)
    /\ pc' = "measured"
    /\ UNCHANGED <<image, clean_ret, center, profile>>

\* fit_ellipses(clean_image, center) hands the image and the center to
\* photutils and returns the table of what fit_image returns; whether the
\* library returns or raises is its own.
FitEllipses ==
    /\ pc = "measured"
    /\ \E outcome \in {"table", "raised"} :
          /\ profile' = outcome
          /\ pc' = IF outcome = "table" THEN "fitted" ELSE "failed"
    /\ UNCHANGED <<image, clean_ret, center, radius>>

-----------------------------------------------------------------------------
(* estimate_radius, called on its own *)

\* The threshold fractions of the calls.
Fractions ==
    {[n |-> -1, d |-> 2], DefaultThresholdFrac, [n |-> 1, d |-> 1], [n |-> 3, d |-> 2]}

\* The centers of the calls: the pixels of the image.
Centers ==
    {<<Finite(y, 1), Finite(x, 1)>> : y \in 0..(Height - 1), x \in 0..(Width - 1)}

RadiusCall(frac, value) == [called |-> TRUE, threshold_frac |-> frac, value |-> value]
NoRadiusCall == [called |-> FALSE, threshold_frac |-> DefaultThresholdFrac, value |-> NoReal]

EstimateRadiusCall(frac) ==
    /\ pc = "radius"
    /\ rprev' = rcall
    /\ rcall' = RadiusCall(frac, estimate_radius(image, center, frac))

-----------------------------------------------------------------------------
(* The specifications *)

IdleAggregation ==
    /\ disk = <<>>
    /\ directory_frame = NoFrame
    /\ call = NoCall
    /\ ret = NoRet
    /\ raised = ""

IdleMain ==
    /\ pc = "idle"
    /\ image = NoImage
    /\ clean_ret = <<>>
    /\ center = NoCenter
    /\ radius = NoReal
    /\ profile = ""

IdleRadius ==
    /\ rcall = NoRadiusCall
    /\ rprev = NoRadiusCall

\* ObservationData(path) over a directory: __init__ calls refresh_dir.
Constructed(directories) ==
    /\ disk \in directories
    /\ directory_frame = refresh_dir(disk)
    /\ call = NoCall
    /\ ret = NoRet
    /\ raised = ""

\* Aggregation: both paths and load_data, over directories whose files
\* differ in their data or in their headers.
Init ==
    /\ Constructed({Directory(k) : k \in SeqsUpTo(DataKinds, MaxFiles)}
                     \cup {Directory(k) : k \in SeqsUpTo(HeaderKinds, MaxCatalogFiles)})
    /\ IdleMain
    /\ IdleRadius

Next ==
    \/ /\ \E band \in Bands : CombineBandImages(band)
       /\ UNCHANGED <<mainVars, radVars>>
    \/ /\ \E band \in Bands : TempCombineRawBandImages(band)
       /\ UNCHANGED <<mainVars, radVars>>
    \/ /\ \E expression \in Expressions : LoadData(expression)
       /\ UNCHANGED <<mainVars, radVars>>

Spec == Init /\ [][Next]_vars

\* The catalog: every method of ObservationData that reads or writes
\* directory_frame, and combine_band_images.
InitCatalog ==
    /\ Constructed({Directory(k) : k \in SeqsUpTo(HeaderKinds, MaxCatalogFiles)})
    /\ IdleMain
    /\ IdleRadius

NextCatalog ==
    \/ /\ \E expression \in Expressions, replace \in BOOLEAN : Filter(expression, replace)
       /\ UNCHANGED <<mainVars, radVars>>
    \/ /\ \E expression \in Expressions : LoadData(expression)
       /\ UNCHANGED <<mainVars, radVars>>
    \/ /\ \E band \in Bands : CombineBandImages(band)
       /\ UNCHANGED <<mainVars, radVars>>
    \/ /\ \E kind \in HeaderKinds : AddFile(kind)
       /\ UNCHANGED <<mainVars, radVars>>
    \/ /\ RefreshDir
       /\ UNCHANGED <<mainVars, radVars>>

SpecCatalog == InitCatalog /\ [][NextCatalog]_vars

\* main() once temp_combine_raw_band_images has returned the combined image.
InitPhotometry ==
    /\ IdleAggregation
    /\ pc = "combined"
    /\ image \in Images
    /\ clean_ret = <<>>
    /\ center = NoCenter
    /\ radius = NoReal
    /\ profile = ""
    /\ IdleRadius

NextPhotometry ==
    \/ /\ SubtractSkyBackground
       /\ UNCHANGED <<aggVars, radVars>>
    \/ /\ EstimateGalaxyCenter
       /\ UNCHANGED <<aggVars, radVars>>
    \/ /\ EstimateRadius
       /\ UNCHANGED <<aggVars, radVars>>
    \/ /\ FitEllipses
       /\ UNCHANGED <<aggVars, radVars>>

SpecPhotometry == InitPhotometry /\ [][NextPhotometry]_vars

\* estimate_radius on any image and center, called again and again.
InitRadius ==
    /\ IdleAggregation
    /\ pc = "radius"
    /\ image \in Images
    /\ center \in Centers
    /\ clean_ret = <<>>
    /\ radius = NoReal
    /\ profile = ""
    /\ IdleRadius

NextRadius ==
    /\ \E frac \in Fractions : EstimateRadiusCall(frac)
    /\ UNCHANGED <<aggVars, image, clean_ret, center, radius, profile, pc>>

SpecRadius == InitRadius /\ [][NextRadius]_vars

-----------------------------------------------------------------------------
(* Claims *)

Permutations(n) ==
    {pi \in [1..n -> 1..n] : \A i, j \in 1..n : pi[i] = pi[j] => i = j}
Permuted(s, pi) == [i \in 1..Len(s) |-> s[pi[i]]]

AggregationCalls == {"combine_band_images", "temp_combine_raw_band_images"}

\* C1: whenever an aggregation call returns a combined image, the call on the
\* same files listed (directory scan) or catalogued (catalog query) in any
\* other order returns that same image.
C1_CombineOrderInvariant ==
    /\ (call.op = "temp_combine_raw_band_images" /\ raised = "") =>
          \A pi \in Permutations(Len(disk)) :
             LET r == temp_combine_raw_band_images(Permuted(disk, pi), call.band)
             IN  r.raised = "" /\ r.image = ret.image
    /\ (call.op = "combine_band_images" /\ raised = "") =>
          \A pi \in Permutations(Len(directory_frame.rows)) :
             LET r == combine_band_images(
                          [directory_frame EXCEPT !.rows = Permuted(@, pi)],
                          disk, call.band)
             IN  r.raised = "" /\ r.image = ret.image

\* C1, witness: three frames were combined whose first pixels, in the order
\* listed, are not sorted, and the median of the three was returned.
C1_Witness ==
    /\ call.op = "temp_combine_raw_band_images"
    /\ raised = ""
    /\ LET kept == RawSelection(disk, call.band)
       IN  /\ Len(kept) = 3
           /\ kept[1].data.pix[1] > kept[2].data.pix[1]
           /\ kept[3].data.pix[1] = kept[2].data.pix[1]
           /\ ret.image.pix[1] = [n |-> kept[2].data.pix[1], d |-> 1]

\* The exception both aggregation paths raise for an empty selection.
EmptySelectionError == "ValueError"

\* Whether the call made selected no frame.
SelectionEmpty ==
    IF call.op = "temp_combine_raw_band_images"
    THEN RawSelection(disk, call.band) = <<>>
    ELSE SelectRows(directory_frame.rows, Expression(call.band, LIGHT)) = <<>>

\* C2: an aggregation call that selects no frame fails with the error of the
\* empty selection and returns nothing, and no aggregation call that selected
\* frames fails with that same error.
C2_EmptySelectionTypedError ==
    call.op \in AggregationCalls =>
        /\ SelectionEmpty => (raised = EmptySelectionError /\ ret.kind = "")
        /\ (~SelectionEmpty /\ raised # "") => raised # EmptySelectionError

\* Whether the file's FILTER and IMAGETYP equal the band and LIGHT up to the
\* case of their letters.
MatchesIgnoringCase(f, band) ==
    /\ upper(HeaderGet(f.header, "FILTER", <<>>)) = upper(band)
    /\ upper(HeaderGet(f.header, "IMAGETYP", <<>>)) = upper(LIGHT)

FileNamed(fname) == CHOOSE f \in {disk[i] : i \in DOMAIN disk} : f.name = fname

\* C7: in both paths every .fits file whose FILTER and IMAGETYP equal the
\* requested band and LIGHT up to letter case is among the frames selected.
C7_CaseInsensitiveSelection ==
    /\ call.op = "temp_combine_raw_band_images" =>
          \A i \in DOMAIN disk :
             (endswith(lower(disk[i].name), ExtFits) /\ MatchesIgnoringCase(disk[i], call.band))
                => \E k \in DOMAIN RawSelection(disk, call.band) :
                      RawSelection(disk, call.band)[k].name = disk[i].name
    /\ call.op = "combine_band_images" =>
          \A i \in DOMAIN directory_frame.rows :
             LET row == directory_frame.rows[i]
                 sel == SelectRows(directory_frame.rows, Expression(call.band, LIGHT))
             IN  (endswith(lower(row.FILENAME), ExtFits)
                    /\ MatchesIgnoringCase(FileNamed(row.FILENAME), call.band))
                    => \E k \in DOMAIN sel : sel[k].FILENAME = row.FILENAME

\* C10: a call of filter with replace=False, of load_data or of
\* combine_band_images leaves directory_frame as it was, whatever it returns
\* or raises; and filter with replace=False raises nothing and returns a
\* frame, which has no row when no record matches.
C10_SelectionIsPureQuery ==
    [][(call'.op \in {"filter", "load_data", "combine_band_images"} /\ ~call'.replace) =>
          /\ directory_frame' = directory_frame
          /\ call'.op = "filter" =>
                /\ raised' = ""
                /\ ret'.kind = "frame"
                /\ ret'.frame.rows = SelectRows(directory_frame.rows, call'.expression)]_vars

\* The stages of main() at which estimate_galaxy_center has returned.
AfterCenter == {"centered", "measured", "fitted", "failed"}

IsDefined(c) == c[1].kind = "finite" /\ c[2].kind = "finite"

\* C3: once estimate_galaxy_center has run on an image whose pixels sum to
\* zero, DegenerateImageError has been raised; and the center main() hands to
\* estimate_radius and to fit_ellipses is a pair of defined coordinates.
C3_DegenerateImageError ==
    pc \in AfterCenter =>
        /\ SeqSum(clean_ret[1].pix) = 0 => raised = "DegenerateImageError"
        /\ pc # "centered" => IsDefined(center)

\* Whether v is the value the image holds most often, the smallest of them
\* when several are held as often.
IsSkyLevel(img, v) ==
    /\ \E p \in DOMAIN img.pix : img.pix[p] = v
    /\ \A q \in DOMAIN img.pix :
          \/ Count(img.pix, v) > Count(img.pix, img.pix[q])
          \/ Count(img.pix, v) = Count(img.pix, img.pix[q]) /\ v <= img.pix[q]

SkySubtracted(img, v, corrected) ==
    /\ corrected.shape = img.shape
    /\ DOMAIN corrected.pix = DOMAIN img.pix
    /\ \A p \in DOMAIN img.pix : corrected.pix[p] = img.pix[p] - v

AfterSky == {"cleaned"} \cup AfterCenter

FracLe(a, b) == a.n * b.d <= b.n * a.d
FracLt(a, b) == a.n * b.d < b.n * a.d
One == [n |-> 1, d |-> 1]
Zero == Finite(0, 1)

\* C4 as claimed: for any image, of two calls with the same image and center
\* the one with the smaller threshold fraction returns the larger radius, or
\* the same.
C4_RadiusMonotoneAnyImage ==
    (rprev.called /\ rcall.called /\ FracLe(rprev.threshold_frac, rcall.threshold_frac)) =>
        RealGe(rprev.value, rcall.value)

\* C4: for an image whose maximum is not negative, of two calls with the
\* same image and center the one with the smaller threshold fraction returns
\* the larger radius, or the same.
C4_RadiusMonotone ==
    (/\ rprev.called /\ rcall.called
     /\ FracLe(rprev.threshold_frac, rcall.threshold_frac)
     /\ ArrayMax(image) >= 0) =>
        RealGe(rprev.value, rcall.value)

\* C4, witness: on an image of positive maximum, a call measured a radius
\* and the call before it, with a smaller fraction, a strictly larger one.
C4_Witness ==
    /\ rprev.called /\ rcall.called
    /\ FracLt(rprev.threshold_frac, rcall.threshold_frac)
    /\ ArrayMax(image) > 0
    /\ Selected(image, rcall.threshold_frac) # {}
    /\ RealGe(rcall.value, Finite(1, 1))
    /\ ~RealGe(rcall.value, rprev.value)

\* C5 as claimed: for any image, a call with a threshold fraction above 1
\* returns 0.0.
C5_ZeroAboveOneAnyImage ==
    (rcall.called /\ FracLt(One, rcall.threshold_frac)) => rcall.value = Zero

\* C5: for an image whose maximum is not negative, a call with a threshold
\* fraction above 1 returns 0.0.
C5_ZeroAboveOne ==
    (rcall.called /\ FracLt(One, rcall.threshold_frac) /\ ArrayMax(image) >= 0) =>
        rcall.value = Zero

\* C5, witness: on an image of positive maximum a call with a fraction above
\* 1 returned 0.0, the call before it, with a fraction of at most 1, having
\* measured a radius.
C5_Witness ==
    /\ rprev.called /\ rcall.called
    /\ ArrayMax(image) > 0
    /\ FracLe(rprev.threshold_frac, One)
    /\ RealGe(rprev.value, Finite(1, 1))
    /\ FracLt(One, rcall.threshold_frac)
    /\ rcall.value = Zero

\* C9: a call that found no pixel above its threshold and a call that
\* measured the distance of the pixels above its threshold never return the
\* same value.
C9_FallbackDistinguishable ==
    (/\ rprev.called /\ rcall.called
     /\ Selected(image, rprev.threshold_frac) = {}
     /\ Selected(image, rcall.threshold_frac) # {}) =>
        ~RealEq(rprev.value, rcall.value)

=============================================================================
